---- MODULE Spec2Model ----
(***************************************************************************)
(* Model of src/swaps/liquid.rs: the HTLC redeem-script codec              *)
(* (LBtcSwapScript) and the claim-transaction lifecycle (LBtcSwapTx).      *)
(*                                                                         *)
(* Representation.                                                         *)
(*   - a byte string (script, push, key, hash) is a sequence of 0..255;    *)
(*   - a hex string is a sequence of hex digits 0..15, BadDigit standing   *)
(*     for any character that is not a hex digit;                          *)
(*   - a u32 is its 4 little-endian bytes and a u64 its 8 little-endian    *)
(*     bytes, so that the full width is kept;                              *)
(*   - Option<T> is None or Some(x); Result<T,S5Error> is Ok(x) or         *)
(*     Err(kind, msg); a Rust panic (unwrap on None/Err, arithmetic        *)
(*     overflow with overflow checks on) is the outcome Panic(at).         *)
(***************************************************************************)
EXTENDS Integers, Sequences, FiniteSets, TLC

VARIABLES
    build,      \* "debug" (overflow checks on) or "release" (wrapping)
    script,     \* Option<LBtcSwapScript>: the script object the caller holds
    tx,         \* Option<LBtcSwapTx>: the swap transaction the caller holds
    last        \* the last call: its name, its inputs and its outcome

vars == <<build, script, tx, last>>

---------------------------------------------------------------------------
(* Option, Result *)

None == [some |-> FALSE]
Some(x) == [some |-> TRUE, val |-> x]

Ok(x) == [tag |-> "Ok", val |-> x]
Err(kind, msg) == [tag |-> "Err", kind |-> kind, msg |-> msg]
Panic(at) == [tag |-> "Panic", at |-> at]

IsOk(r) == r.tag = "Ok"
IsErr(r) == r.tag = "Err"
IsPanic(r) == r.tag = "Panic"

---------------------------------------------------------------------------
(* Bytes, hex strings, fixed-width integers *)

Byte == 0..255

BadDigit == 16

\* hex::encode: two digits per byte, high digit first
HexEncode(bytes) ==
    [i \in 1..(2 * Len(bytes)) |->
        IF i % 2 = 1 THEN bytes[(i + 1) \div 2] \div 16
                     ELSE bytes[i \div 2] % 16]

\* Vec::from_hex: fails on an odd length or on a character that is no digit
HexValid(hex) ==
    /\ Len(hex) % 2 = 0
    /\ \A i \in 1..Len(hex) : hex[i] \in 0..15

HexDecode(hex) ==
    [i \in 1..(Len(hex) \div 2) |-> 16 * hex[2 * i - 1] + hex[2 * i]]

RECURSIVE BitOr(_, _)
BitOr(a, b) ==
    IF a = 0 THEN b
    ELSE IF b = 0 THEN a
    ELSE (IF a % 2 = 1 \/ b % 2 = 1 THEN 1 ELSE 0) + 2 * BitOr(a \div 2, b \div 2)

\* a u32 given by its value, for values TLC's integers can hold
U32(n) == <<n % 256, (n \div 256) % 256, (n \div 65536) % 256, (n \div 16777216) % 256>>

U32Max == <<255, 255, 255, 255>>

\* (value as u64) of a u32
U64FromU32(w) == w \o <<0, 0, 0, 0>>

U64(n) == U64FromU32(U32(n))

RECURSIVE LeCompare(_, _, _)
\* compares two little-endian numbers of the same length from byte i down: -1, 0, 1
LeCompare(a, b, i) ==
    IF i = 0 THEN 0
    ELSE IF a[i] < b[i] THEN -1
    ELSE IF a[i] > b[i] THEN 1
    ELSE LeCompare(a, b, i - 1)

U64Less(a, b) == LeCompare(a, b, 8) = -1

RECURSIVE LeSub(_, _, _, _)
\* a - b modulo 2^(8 * Len(a)), byte by byte from byte i with the borrow
LeSub(a, b, i, borrow) ==
    IF i > Len(a) THEN <<>>
    ELSE LET d == a[i] - b[i] - borrow
         IN  <<d % 256>> \o LeSub(a, b, i + 1, IF d < 0 THEN 1 ELSE 0)

U64WrappingSub(a, b) == LeSub(a, b, 1, 0)

RECURSIVE LeAdd(_, _, _, _)
LeAdd(a, b, i, carry) ==
    IF i > Len(a) THEN <<>>
    ELSE LET s == a[i] + b[i] + carry
         IN  <<s % 256>> \o LeAdd(a, b, i + 1, s \div 256)

U64WrappingAdd(a, b) == LeAdd(a, b, 1, 0)

---------------------------------------------------------------------------
(* Script opcodes (elements::opcodes::all) *)

OP_PUSHBYTES_75 == 75
OP_PUSHDATA1 == 76
OP_PUSHDATA2 == 77
OP_PUSHDATA4 == 78
OP_PUSHNUM_1 == 81
OP_IF == 99
OP_ELSE == 103
OP_ENDIF == 104
OP_DROP == 117
OP_SIZE == 130
OP_EQUAL == 135
OP_EQUALVERIFY == 136
OP_0NOTEQUAL == 146
OP_HASH160 == 169
OP_CHECKSIG == 172
OP_CLTV == 177

---------------------------------------------------------------------------
(* elements::script::Builder *)

push_opcode(s, op) == s \o <<op>>

push_slice(s, data) ==
    IF Len(data) <= OP_PUSHBYTES_75 THEN s \o <<Len(data)>> \o data
    ELSE IF Len(data) < 256 THEN s \o <<OP_PUSHDATA1, Len(data)>> \o data
    ELSE s \o <<OP_PUSHDATA2, Len(data) % 256, Len(data) \div 256>> \o data

RECURSIVE StripZeros(_)
\* the little-endian magnitude without its high zero bytes
StripZeros(w) ==
    IF Len(w) = 0 THEN w
    ELSE IF w[Len(w)] = 0 THEN StripZeros(SubSeq(w, 1, Len(w) - 1))
    ELSE w

\* build_scriptint of a non-negative number: minimal little-endian bytes, and a
\* zero byte more when the top bit of the last byte is set (it is the sign bit)
build_scriptint(w) ==
    LET m == StripZeros(w)
    IN  IF Len(m) = 0 THEN m
        ELSE IF m[Len(m)] >= 128 THEN m \o <<0>>
        ELSE m

\* Builder::push_int(value as i64) for a u32 value: 1..16 are the opcodes
\* OP_PUSHNUM_1..16, 0 is OP_0 (an empty push), the rest a script number
push_int(s, w) ==
    LET m == StripZeros(w)
    IN  IF Len(m) = 0 THEN push_opcode(s, 0)
        ELSE IF Len(m) = 1 /\ m[1] <= 16 THEN push_opcode(s, m[1] - 1 + OP_PUSHNUM_1)
        ELSE push_slice(s, build_scriptint(w))

---------------------------------------------------------------------------
(* elements::script::Instructions: the instruction stream of a script *)

InstrOp(op) == [t |-> "Op", op |-> op, bytes |-> <<>>]
InstrPush(bytes) == [t |-> "PushBytes", op |-> 0, bytes |-> bytes]
InstrErr == [t |-> "Err", op |-> 0, bytes |-> <<>>]

Rest(data, n) == SubSeq(data, n + 1, Len(data))

\* a push of n bytes that follow a header of h bytes; an early end of the script
\* is an error, after which the iterator yields nothing more
RECURSIVE Instructions(_)
ReadPush(data, h, n) ==
    IF Len(data) < h + n THEN <<InstrErr>>
    ELSE <<InstrPush(SubSeq(data, h + 1, h + n))>> \o Instructions(Rest(data, h + n))

Instructions(data) ==
    IF Len(data) = 0 THEN <<>>
    ELSE LET b == data[1]
         IN  IF b <= OP_PUSHBYTES_75 THEN ReadPush(data, 1, b)
             ELSE IF b = OP_PUSHDATA1 THEN
                 IF Len(data) < 2 THEN <<InstrErr>>
                 ELSE ReadPush(data, 2, data[2])
             ELSE IF b = OP_PUSHDATA2 THEN
                 IF Len(data) < 3 THEN <<InstrErr>>
                 ELSE ReadPush(data, 3, data[2] + 256 * data[3])
             ELSE IF b = OP_PUSHDATA4 THEN
                 IF Len(data) < 5 THEN <<InstrErr>>
                 ELSE IF data[4] # 0 \/ data[5] # 0 THEN <<InstrErr>>
                 ELSE ReadPush(data, 5, data[2] + 256 * data[3])
             ELSE <<InstrOp(b)>> \o Instructions(Rest(data, 1))

---------------------------------------------------------------------------
(* bytes_to_u32_little_endian *)

\* result |= (byte as u32) << (8 * i), for the byte at index i (from 0).
\* A shift by 32 or more overflows: with overflow checks it panics, without
\* them the shift amount is taken modulo 32, so byte i lands on byte i % 4.
RECURSIVE LeFold(_, _, _)
LeFold(bytes, k, result) ==
    IF k > Len(bytes) THEN Ok(result)
    ELSE LET i == k - 1
         IN  IF i >= 4 /\ build = "debug" THEN Panic("shift left with overflow")
             ELSE LeFold(bytes, k + 1,
                         [result EXCEPT ![(i % 4) + 1] = BitOr(@, bytes[k])])

\* the bytes taken with the first byte as the most significant
bytes_to_u32_big_endian(bytes) ==
    LeFold([i \in 1..Len(bytes) |-> bytes[Len(bytes) + 1 - i]], 1, U32(0))

bytes_to_u32_little_endian(bytes) == LeFold(bytes, 1, U32(0))

---------------------------------------------------------------------------
(* LBtcSwapScript *)

SwapTypes == {"Submarine", "ReverseSubmarine"}

LBtcSwapScript(network, electrum_url, swap_type, hashlock, reciever_pubkey, timelock, sender_pubkey, blinding_key) ==
    [network |-> network, electrum_url |-> electrum_url, swap_type |-> swap_type,
     hashlock |-> hashlock, reciever_pubkey |-> reciever_pubkey,
     timelock |-> timelock, sender_pubkey |-> sender_pubkey,
     blinding_key |-> blinding_key]

\* ZKKeyPair::from_seckey_str: 64 hex digits of a non-zero secret key
from_seckey_str(str) ==
    IF HexValid(str) /\ Len(str) = 64 /\ \E i \in 1..Len(str) : str[i] # 0
    THEN Ok([secret_key |-> HexDecode(str)])
    ELSE Err("Secp", "invalid secret key")

\* the state of the scan: the last opcode seen and the four fields
ScanInit ==
    [last_op |-> OP_0NOTEQUAL, hashlock |-> None, reciever_pubkey |-> None,
     timelock |-> None, sender_pubkey |-> None, panic |-> FALSE]

\* one instruction of submarine_from_str's loop
submarine_step(st, ins) ==
    IF ins.t = "Op" THEN [st EXCEPT !.last_op = ins.op]
    ELSE IF ins.t = "Err" THEN st
    ELSE IF st.last_op = OP_HASH160 THEN
        [st EXCEPT !.hashlock = Some(HexEncode(ins.bytes))]
    ELSE IF st.last_op = OP_IF THEN
        [st EXCEPT !.reciever_pubkey = Some(HexEncode(ins.bytes))]
    ELSE IF st.last_op = OP_ELSE THEN
        LET v == bytes_to_u32_little_endian(ins.bytes)
        IN  IF IsPanic(v) THEN [st EXCEPT !.panic = TRUE]
            ELSE [st EXCEPT !.timelock = Some(v.val)]
    ELSE IF st.last_op = OP_DROP THEN
        [st EXCEPT !.sender_pubkey = Some(HexEncode(ins.bytes))]
    ELSE st

\* one instruction of reverse_from_str's loop
reverse_step(st, ins) ==
    IF ins.t = "Op" THEN [st EXCEPT !.last_op = ins.op]
    ELSE IF ins.t = "Err" THEN st
    ELSE IF st.last_op = OP_HASH160 THEN
        [st EXCEPT !.hashlock = Some(HexEncode(ins.bytes))]
    ELSE IF st.last_op = OP_EQUALVERIFY THEN
        [st EXCEPT !.reciever_pubkey = Some(HexEncode(ins.bytes))]
    ELSE IF st.last_op = OP_DROP THEN
        IF Len(ins.bytes) = 3 THEN
            LET v == bytes_to_u32_little_endian(ins.bytes)
            IN  IF IsPanic(v) THEN [st EXCEPT !.panic = TRUE]
                ELSE [st EXCEPT !.timelock = Some(v.val)]
        ELSE [st EXCEPT !.sender_pubkey = Some(HexEncode(ins.bytes))]
    ELSE st

RECURSIVE Scan(_, _, _, _)
\* the loop over the instructions, for the direction's step
Scan(swap_type, instrs, k, st) ==
    IF k > Len(instrs) \/ st.panic THEN st
    ELSE Scan(swap_type, instrs, k + 1,
              IF swap_type = "Submarine" THEN submarine_step(st, instrs[k])
              ELSE reverse_step(st, instrs[k]))

\* the check of the fields after the scan (the same in both decoders)
AllExtracted(st) ==
    /\ st.hashlock.some
    /\ st.sender_pubkey.some
    /\ st.timelock.some
    /\ st.sender_pubkey.some

\* what both decoders do after EScript::from_str, for the direction swap_type
FromScan(swap_type, network, electrum_url, st, blinding_key) ==
    IF st.panic THEN Panic("shift left with overflow")
    ELSE IF AllExtracted(st) THEN
        IF ~st.reciever_pubkey.some THEN Panic("reciever_pubkey unwrap")
        ELSE IF ~IsOk(blinding_key) THEN Panic("from_seckey_str unwrap")
        ELSE Ok(LBtcSwapScript(network, electrum_url, swap_type,
                   st.hashlock.val, st.reciever_pubkey.val,
                   st.timelock.val, st.sender_pubkey.val, blinding_key.val))
    ELSE Err("Input", "Could not extract all elements")

\* the decoder of the direction swap_type: EScript::from_str, the scan, the check
FromStr(swap_type, network, electrum_url, redeem_script_str, blinding_str) ==
    IF ~HexValid(redeem_script_str) THEN Panic("EScript::from_str unwrap")
    ELSE FromScan(swap_type, network, electrum_url,
                  Scan(swap_type, Instructions(HexDecode(redeem_script_str)),
                       1, ScanInit),
                  from_seckey_str(blinding_str))

submarine_from_str(network, electrum_url, redeem_script_str, blinding_str) ==
    FromStr("Submarine", network, electrum_url, redeem_script_str, blinding_str)

reverse_from_str(network, electrum_url, redeem_script_str, blinding_str) ==
    FromStr("ReverseSubmarine", network, electrum_url, redeem_script_str,
            blinding_str)

\* bitcoin::PublicKey::from_str: 33 bytes with prefix 02/03, or 65 with prefix 04
PublicKeyFromStr(str) ==
    IF ~HexValid(str) THEN Err("Key", "hex")
    ELSE LET b == HexDecode(str)
         IN  IF Len(b) = 33 /\ b[1] \in {2, 3} THEN Ok(b)
             ELSE IF Len(b) = 65 /\ b[1] = 4 THEN Ok(b)
             ELSE Err("Key", "invalid public key")

\* hash160::Hash::from_str: exactly 20 bytes of hex
Hash160FromStr(str) ==
    IF HexValid(str) /\ Len(str) = 40 THEN Ok(HexDecode(str))
    ELSE Err("Hash", "invalid hash")

submarine_script(hashbytes, reciever_pubkey, locktime, sender_pubkey) ==
    push_opcode(push_opcode(push_slice(push_opcode(push_opcode(
    push_int(push_opcode(push_slice(push_opcode(push_opcode(
    push_slice(push_opcode(<<>>,
        OP_HASH160), hashbytes),
        OP_EQUAL),
        OP_IF), reciever_pubkey),
        OP_ELSE), locktime),
        OP_CLTV),
        OP_DROP), sender_pubkey),
        OP_ENDIF),
        OP_CHECKSIG)

reverse_script(hashbytes, reciever_pubkey, locktime, sender_pubkey) ==
    push_opcode(push_opcode(push_slice(push_opcode(push_opcode(
    push_int(push_opcode(push_opcode(push_slice(push_opcode(
    push_slice(push_opcode(push_opcode(push_opcode(push_slice(push_opcode(<<>>,
        OP_SIZE), <<32>>),
        OP_EQUAL),
        OP_IF),
        OP_HASH160), hashbytes),
        OP_EQUALVERIFY), reciever_pubkey),
        OP_ELSE),
        OP_DROP), locktime),
        OP_CLTV),
        OP_DROP), sender_pubkey),
        OP_ENDIF),
        OP_CHECKSIG)

\* to_script: Ok(script bytes), or the panic of the first unwrap that fails
to_script(self) ==
    LET reciever_pubkey == PublicKeyFromStr(self.reciever_pubkey)
        sender_pubkey == PublicKeyFromStr(self.sender_pubkey)
        hashvalue == Hash160FromStr(self.hashlock)
    IN  IF ~IsOk(reciever_pubkey) THEN Panic("reciever_pubkey from_str unwrap")
        ELSE IF ~IsOk(sender_pubkey) THEN Panic("sender_pubkey from_str unwrap")
        ELSE IF ~IsOk(hashvalue) THEN Panic("hashlock from_str unwrap")
        ELSE IF self.swap_type = "Submarine" THEN
            Ok(submarine_script(hashvalue.val, reciever_pubkey.val,
                                self.timelock, sender_pubkey.val))
        ELSE
            Ok(reverse_script(hashvalue.val, reciever_pubkey.val,
                              self.timelock, sender_pubkey.val))

---------------------------------------------------------------------------
(* Addresses and locking scripts *)

\* a locking script: the kind of program and the script (or key) it commits to
Spk(kind, of) == [kind |-> kind, of |-> of]

\* Script::to_v0_p2wsh
to_v0_p2wsh(s) == Spk("p2wsh", s)

\* the public key of a key pair given by its secret key
PublicOf(keypair) == [public_of |-> keypair.secret_key]

AddressParams(network) ==
    IF network = "Liquid" THEN "LIQUID" ELSE "LIQUID_TESTNET"

\* the address of a script: p2sh-wrapped p2wsh for Submarine, native p2wsh
\* for ReverseSubmarine, confidential under the blinding public key
AddressOf(self, s) ==
    [script_pubkey |->
        IF self.swap_type = "Submarine" THEN Spk("p2sh-p2wsh", s)
        ELSE Spk("p2wsh", s),
     blinding_pubkey |-> Some(PublicOf(self.blinding_key)),
     params |-> AddressParams(self.network)]

to_address(self) ==
    LET s == to_script(self)
    IN  IF ~IsOk(s) THEN s ELSE Ok(AddressOf(self, s.val))

ReturnAddress == "tlq1qqtc07z9kljll7dk2jyhz0qj86df9gnrc70t0wuexutzkxjavdpht0d4vwhgs2pq2f09zsvfr5nkglc394766w3hdaqrmay4tw"
PlainAddress == "tex1q2wgelfpnzz2s0tjxetkusxksvnemcc5cnht23h"
MalformedAddress == "not-an-address"

\* Address::from_str: a confidential address carries a blinding public key, an
\* unconfidential one does not; anything else is an error
AddressFromStr(str) ==
    IF str = ReturnAddress THEN
        Ok([script_pubkey |-> Spk("p2wpkh", <<1>>),
            blinding_pubkey |-> Some([public_of |-> <<1>>]),
            params |-> "LIQUID_TESTNET"])
    ELSE IF str = PlainAddress THEN
        Ok([script_pubkey |-> Spk("p2wpkh", <<2>>),
            blinding_pubkey |-> None,
            params |-> "LIQUID_TESTNET"])
    ELSE Err("Address", "invalid address")

---------------------------------------------------------------------------
(* LBtcSwapTx *)

LBtcSwapTx(kind, swap_script, output_address, absolute_fees) ==
    [kind |-> kind, swap_script |-> swap_script,
     output_address |-> output_address, absolute_fees |-> absolute_fees,
     utxo |-> None, utxo_value |-> None, txout_secrets |-> None]

OutPoint(txid, vout) == [txid |-> txid, vout |-> vout]

manual_utxo_update(self, utxo, value) ==
    [self EXCEPT !.utxo = Some(utxo), !.utxo_value = Some(value)]

NewTx(kind, swap_script, output_address, absolute_fees) ==
    LET address == AddressFromStr(output_address)
    IN  IF ~IsOk(address) THEN Err("Input", address.msg)
        ELSE Ok(LBtcSwapTx(kind, swap_script, address.val, absolute_fees))

new_claim(swap_script, output_address, absolute_fees) ==
    NewTx("Claim", swap_script, output_address, absolute_fees)

new_refund(swap_script, output_address, absolute_fees) ==
    NewTx("Refund", swap_script, output_address, absolute_fees)

has_utxo(self) == self.utxo.some /\ self.utxo_value.some

\* a loop without the break: the index (from 1) of the last output locked by
\* script_pubkey, 0 when there is none
LastMatch(output, script_pubkey, i) ==
    LET S == {k \in i..Len(output) : output[k].script_pubkey = script_pubkey}
    IN  IF S = {} THEN 0 ELSE CHOOSE k \in S : \A m \in S : m <= k

RECURSIVE FirstMatch(_, _, _)
\* the loop over the outputs: the index (from 1) of the first output locked by
\* script_pubkey, 0 when there is none
FirstMatch(output, script_pubkey, i) ==
    IF i > Len(output) THEN 0
    ELSE IF output[i].script_pubkey = script_pubkey THEN i
    ELSE FirstMatch(output, script_pubkey, i + 1)

\* fetch_utxo against the answers env of the chain-query service and of the file
\* system: the panic of the first unwrap that fails (None when there is none),
\* the transaction object afterwards, the script whose history was asked and
\* the index of the output it recorded (None when it recorded none)
Locate(self, env, s) ==
    LET address == IF ~IsOk(s) THEN s ELSE Ok(AddressOf(self.swap_script, s.val))
        same == [panic |-> None, self |-> self, query |-> None, vout |-> None]
        P(at) == [same EXCEPT !.panic = Some(at)]
    IN  IF ~env.build_client THEN P("build_client unwrap")
        ELSE IF ~IsOk(address) THEN P(address.at)
        ELSE LET asked == [same EXCEPT !.query = Some(to_v0_p2wsh(s.val))]
                 Q(at) == [asked EXCEPT !.panic = Some(at)]
                 i == FirstMatch(env.tx.output, address.val.script_pubkey, 1)
             IN  IF ~env.history.some THEN Q("script_get_history unwrap")
                 ELSE IF Len(env.history.val) = 0 THEN Q("history.first unwrap")
                 ELSE IF env.raw = "err" THEN Q("transaction_get_raw unwrap")
                 ELSE IF env.raw = "undecodable" THEN Q("deserialize unwrap")
                 ELSE IF ~env.file THEN Q("File::create unwrap")
                 ELSE IF i = 0 THEN asked
                 ELSE IF ~env.tx.output[i].secrets.some THEN Q("unblind unwrap")
                 ELSE [asked EXCEPT
                          !.vout = Some(i - 1),
                          !.self.utxo = Some(OutPoint(env.tx.txid, i - 1)),
                          !.self.utxo_value = Some(env.tx.output[i].secrets.val.value),
                          !.self.txout_secrets = Some(env.tx.output[i].secrets.val)]

fetch_utxo(self, env) == Locate(self, env, to_script(self.swap_script))

---------------------------------------------------------------------------
(* Confidential values, the claim transaction and its signature *)

ZeroFactor == [zero |-> TRUE]

Explicit(value) == [explicit |-> TRUE, value |-> value, bf |-> ZeroFactor]

\* a value commitment: it hides value under the blinding factor bf
Confidential(value, bf) == [explicit |-> FALSE, value |-> value, bf |-> bf]

\* TxOut::new_fee: explicit asset and value, empty script, no proofs
new_fee(value, asset) ==
    [script_pubkey |-> Spk("fee", <<>>), value |-> Explicit(value),
     asset |-> [explicit |-> TRUE, asset |-> asset], nonce |-> None,
     witness |-> None]

\* ValueBlindingFactor::last: determined by the output's value and asset
\* blinding factor and by the other inputs and outputs of the transaction
ValueBlindingFactorLast(value, abf, inputs, outputs) ==
    [last |-> <<value, abf, inputs, outputs>>]

\* the answers of the blinding library to one signing: it makes both proofs,
\* or Asset::blind answers Err, or Value::blind answers Err; the code unwraps
\* both answers
LibAnswers == {"ok", "Asset::blind Err", "Value::blind Err"}

\* a witness element: bytes, or a signature by a key over a message
Item(bytes) == [sig |-> FALSE, bytes |-> bytes]
SigItem(signer, msg, sighash_type) ==
    [sig |-> TRUE, signer |-> signer, msg |-> msg, sighash_type |-> sighash_type]

\* SighashCache::segwitv0_sighash: what the digest commits to
segwitv0_sighash(unsigned_tx, input_index, script_code, value, sighash_type) ==
    [previous_output |-> unsigned_tx.input[input_index + 1].previous_output,
     sequence |-> unsigned_tx.input[input_index + 1].sequence,
     script_code |-> script_code, value |-> value,
     output |-> unsigned_tx.output, lock_time |-> unsigned_tx.lock_time,
     version |-> unsigned_tx.version, sighash_type |-> sighash_type]

TxIn(previous_output, sequence, script_witness) ==
    [previous_output |-> previous_output, script_sig |-> <<>>,
     sequence |-> sequence, script_witness |-> script_witness,
     is_pegin |-> FALSE]

\* a payment output that keeps the whole utxo value: the fee is not taken off
OutputValueFeeKept(utxo_value, absolute_fees) == Ok(utxo_value)

\* utxo_value - absolute_fees as u64: Ok(difference), or on underflow a panic
\* with overflow checks and the difference modulo 2^64 without them
OutputValue(utxo_value, absolute_fees) ==
    IF U64Less(utxo_value, U64FromU32(absolute_fees)) /\ build = "debug"
    THEN Panic("subtract with overflow")
    ELSE Ok(U64WrappingSub(utxo_value, U64FromU32(absolute_fees)))

\* the payment output and the fee output of the claim transaction
ClaimOutputs(self, output_value, rng) ==
    LET secrets == self.txout_secrets.val
        out_abf == [random |-> rng]
        final_vbf == ValueBlindingFactorLast(output_value, out_abf,
                        <<<<secrets.value, secrets.asset_bf, secrets.value_bf>>>>,
                        <<<<U64FromU32(self.absolute_fees), ZeroFactor, ZeroFactor>>>>)
        payment_output ==
            [script_pubkey |-> self.output_address.script_pubkey,
             value |-> Confidential(output_value, final_vbf),
             asset |-> [explicit |-> FALSE, asset |-> secrets.asset, bf |-> out_abf],
             nonce |-> Some([ephemeral |-> rng,
                             to |-> self.output_address.blinding_pubkey.val]),
             witness |-> Some("proofs")]
    IN  <<payment_output, new_fee(U64FromU32(self.absolute_fees), secrets.asset)>>

\* the witness stack of the claim input
ClaimWitness(sig, preimage_bytes, redeem_script) ==
    <<Item(<<>>), sig, Item(preimage_bytes), Item(redeem_script)>>

\* sign_claim_tx: Ok(signed transaction), or the panic of the first unwrap or
\* checked subtraction that fails. rng is the draw of the random source and
\* lib the answer of the blinding library.
SignClaim(self, keys, preimage, rng, lib, output_value, s) ==
    LET sequence == U32Max
        output == ClaimOutputs(self, output_value.val, rng)
        unsigned_tx ==
            [version |-> 2, lock_time |-> self.swap_script.timelock,
             input |-> <<TxIn(self.utxo.val, sequence, <<>>)>>,
             output |-> output]
        sighash == segwitv0_sighash(unsigned_tx, 0, s.val, output[1].value, "All")
        sig == SigItem(keys.public_key, sighash, "All")
    IN  IF ~self.utxo.some THEN Panic("utxo unwrap")
        ELSE IF ~self.txout_secrets.some THEN Panic("txout_secrets unwrap")
        ELSE IF lib = "Asset::blind Err" THEN Panic("Asset::blind unwrap")
        ELSE IF ~IsOk(output_value) THEN output_value
        ELSE IF ~self.output_address.blinding_pubkey.some
             THEN Panic("blinding_pubkey unwrap")
        ELSE IF lib = "Value::blind Err" THEN Panic("Value::blind unwrap")
        ELSE IF ~IsOk(s) THEN s
        ELSE IF ~preimage.bytes.some THEN Panic("preimage.bytes unwrap")
        ELSE Ok([version |-> 2, lock_time |-> self.swap_script.timelock,
                 input |-> <<TxIn(self.utxo.val, sequence,
                                  ClaimWitness(sig, preimage.bytes.val, s.val))>>,
                 output |-> output])

sign_claim_tx(self, keys, preimage, rng, lib) ==
    SignClaim(self, keys, preimage, rng, lib,
              IF self.utxo_value.some
              THEN OutputValue(self.utxo_value.val, self.absolute_fees)
              ELSE Panic("utxo_value unwrap"),
              to_script(self.swap_script))

sign_refund_tx(self, keys) == TRUE

\* drain: the transaction object afterwards, the result, and what the locate
\* step did (the script it asked the history of, whether it recorded a utxo)
Drained(self, keys, preimage, rng, lib, f) ==
    LET out == [self |-> f.self, query |-> f.query,
                recorded |-> f.vout.some,
                signing |-> FALSE, result |-> Panic("")]
    IN  IF f.panic.some THEN [out EXCEPT !.result = Panic(f.panic.val)]
        ELSE IF ~has_utxo(f.self) THEN
            [out EXCEPT !.result = Err("Transaction", "No utxos available yet")]
        ELSE IF self.kind = "Claim" THEN
            [out EXCEPT !.signing = TRUE,
                        !.result = sign_claim_tx(f.self, keys, preimage, rng, lib)]
        ELSE
            [out EXCEPT !.signing = sign_refund_tx(f.self, keys),
                        !.result = Err("Transaction",
                            "Refund transaction signing not supported yet")]

drain(self, keys, preimage, env, rng, lib) ==
    Drained(self, keys, preimage, rng, lib, fetch_utxo(self, env))

\* NetworkConfig::build_client failing: an S5Error of kind Network that
\* carries the underlying message
build_client_error(msg) == Err("Network", msg)

\* elements::encode::serialize
serialize(signed_tx) == [wire |-> signed_tx]

Reverse(b) == [i \in 1..Len(b) |-> b[Len(b) + 1 - i]]

\* Txid::to_string: the bytes in reverse order, in hex
TxidToString(txid) == HexEncode(Reverse(txid))

\* a broadcast that reports a rejection without the service's message
broadcastMessageLost(self, signed_tx, env) ==
    IF ~IsOk(env.build_client) THEN
        [self |-> self, sent |-> <<>>, result |-> env.build_client]
    ELSE IF IsOk(env.service) THEN
        [self |-> self, sent |-> <<serialize(signed_tx)>>,
         result |-> Ok(TxidToString(env.service.val))]
    ELSE
        [self |-> self, sent |-> <<serialize(signed_tx)>>,
         result |-> Err("Network", "broadcast failed")]

\* broadcast against the answers env: the result and the raw-broadcast round
\* trips made (the bytes sent, in order)
broadcast(self, signed_tx, env) ==
    IF ~IsOk(env.build_client) THEN
        [self |-> self, sent |-> <<>>, result |-> env.build_client]
    ELSE IF IsOk(env.service) THEN
        [self |-> self, sent |-> <<serialize(signed_tx)>>,
         result |-> Ok(TxidToString(env.service.val))]
    ELSE
        [self |-> self, sent |-> <<serialize(signed_tx)>>,
         result |-> Err("Network", env.service.msg)]

---------------------------------------------------------------------------
(* Inputs: the values of the repository's test and the edges of the ranges *)

Hashlock1 ==
    <<43, 221, 3, 212, 49, 37, 21, 152, 244, 106, 98, 95, 29, 58, 191,
      205, 127, 73, 21, 53>>

Hashlock2 == [i \in 1..20 |-> (17 * i) % 256]

PubKey1 ==
    <<2, 204, 186, 181, 249, 124, 137, 175, 185, 125, 129, 72, 49, 197,
      53, 94, 245, 186, 150, 161, 140, 157, 205, 27, 92, 140, 253, 66, 198,
      151, 191, 229, 60>>

PubKey2 ==
    <<3, 252, 237, 0, 56, 91, 209, 75, 23, 74, 87, 29, 136, 180, 182, 172,
      237, 44, 177, 213, 50, 35, 124, 41, 196, 236, 97, 51, 143, 187, 126,
      255, 64>>

Preimage1 ==
    <<110, 247, 217, 28, 114, 30, 160, 107, 59, 101, 216, 36, 174, 29,
      105, 119, 124, 211, 137, 45, 65, 9, 2, 52, 174, 241, 58, 87, 47, 240,
      230, 79>>

BlindingSecret1 ==
    <<2, 112, 42, 231, 30, 193, 26, 137, 95, 98, 85, 226, 99, 149, 152,
      53, 133, 160, 215, 145, 234, 30, 184, 61, 26, 165, 74, 102, 5, 100,
      105, 218>>

SecretKey1 ==
    <<174, 203, 194, 189, 223, 205, 63, 166, 149, 61, 37, 122, 159, 54,
      157, 194, 12, 220, 102, 242, 96, 92, 115, 239, 180, 201, 27, 144, 112,
      53, 6, 182>>

VectorScript ==
    <<130, 1, 32, 135, 99, 169, 20, 43, 221, 3, 212, 49, 37, 21, 152, 244,
      106, 98, 95, 29, 58, 191, 205, 127, 73, 21, 53, 136, 33, 2, 204, 186,
      181, 249, 124, 137, 175, 185, 125, 129, 72, 49, 197, 53, 94, 245, 186,
      150, 161, 140, 157, 205, 27, 92, 140, 253, 66, 198, 151, 191, 229, 60,
      103, 117, 3, 113, 89, 18, 177, 117, 33, 3, 252, 237, 0, 56, 91, 209,
      75, 23, 74, 87, 29, 136, 180, 182, 172, 237, 44, 177, 213, 50, 35,
      124, 41, 196, 236, 97, 51, 143, 187, 126, 255, 64, 104, 172>>

VectorTimelock == U32(1202545)

Network == "LiquidTestnet"
ElectrumUrl == "blockstream.info:465"

\* timelocks at the edges of each encoding: OP_0, OP_PUSHNUM_1..16, and script
\* numbers of 1, 2, 3, 4 and 5 bytes
Timelocks ==
    {U32(0), U32(1), U32(16), U32(17), U32(128), U32(32768), VectorTimelock,
     U32(8388607), U32(8388608), <<0, 0, 0, 128>>, U32Max}

\* the two keys in either order, and one key in both places
KeyPairs == {<<PubKey1, PubKey2>>, <<PubKey2, PubKey1>>, <<PubKey1, PubKey1>>}

FieldSet(swap_type, hashlock, keys, timelock) ==
    LBtcSwapScript(Network, ElectrumUrl, swap_type, HexEncode(hashlock),
                   HexEncode(keys[1]), timelock, HexEncode(keys[2]),
                   [secret_key |-> BlindingSecret1])

\* every field set over the inputs above
WideFields ==
    {FieldSet(d, h, k, t) : d \in SwapTypes, h \in {Hashlock1, Hashlock2},
                            k \in KeyPairs, t \in Timelocks}

\* the field set of the repository's test, in both directions
NarrowFields ==
    {FieldSet(d, Hashlock1, <<PubKey1, PubKey2>>, VectorTimelock) : d \in SwapTypes}

\* the field sets to_script encodes: a 20-byte hashlock and two public keys
ValidFields(f) ==
    /\ IsOk(Hash160FromStr(f.hashlock))
    /\ IsOk(PublicKeyFromStr(f.reciever_pubkey))
    /\ IsOk(PublicKeyFromStr(f.sender_pubkey))

BlindingStrs == {HexEncode(BlindingSecret1), <<BadDigit, 0>>}

RECURSIVE Serialize(_)
\* the bytes of an instruction stream
Serialize(instrs) ==
    IF Len(instrs) = 0 THEN <<>>
    ELSE (IF instrs[1].t = "Op" THEN <<instrs[1].op>>
          ELSE push_slice(<<>>, instrs[1].bytes)) \o Serialize(Tail(instrs))

RemoveAt(q, k) == SubSeq(q, 1, k - 1) \o SubSeq(q, k + 1, Len(q))

\* the scripts got from a script by leaving out one instruction
WithoutOne(bytes) ==
    LET instrs == Instructions(bytes)
    IN  {Serialize(RemoveAt(instrs, k)) : k \in 1..Len(instrs)}

\* the script cut short in the middle of its last push
CutShort(bytes) == SubSeq(bytes, 1, Len(bytes) - 10)

\* the redeem-script strings a caller passes to the decoders: strings that are
\* no hex, the script of the repository's test, and, after a to_script, the
\* script it returned, that script without one of its instructions and that
\* script cut short
RedeemScriptStrs ==
    {<<BadDigit, 0>>, <<8, 2, 0>>, HexEncode(VectorScript)}
    \cup (IF last.op = "to_script" /\ IsOk(last.result)
          THEN {HexEncode(b) : b \in {last.result.val, CutShort(last.result.val)}
                                     \cup WithoutOne(last.result.val)}
          ELSE {})

Txid(n) == [i \in 1..32 |-> (n + i) % 256]

Preimages == {[bytes |-> None], [bytes |-> Some(Preimage1)]}

Keys == {[secret_key |-> SecretKey1, public_key |-> PubKey1]}

AddressStrs == {ReturnAddress, MalformedAddress}

Fees == {U32(300), U32(5000)}

SmallValue == U64(300)
LargeValue == <<0, 0, 0, 0, 2, 0, 0, 0>>

MaxOutputs == 2
MaxHistory == 2
MaxRng == 2

\* an output of a funding transaction that unblinds under the swap's blinding
\* key to the value v, and one that does not unblind
FundingOutput(script_pubkey, v, n) ==
    [script_pubkey |-> script_pubkey,
     value |-> Confidential(v, [random |-> n]),
     secrets |-> Some([asset |-> "L-BTC", asset_bf |-> [random |-> n],
                       value |-> v, value_bf |-> [random |-> n]])]

Unblindable(script_pubkey, v, n) ==
    [FundingOutput(script_pubkey, v, n) EXCEPT !.secrets = None]

\* the outputs a fetched transaction can hold, for a swap address locked by spk
OutputKinds(spk) ==
    {FundingOutput(spk, SmallValue, 1), FundingOutput(spk, LargeValue, 2),
     Unblindable(spk, LargeValue, 3),
     FundingOutput(Spk("p2wpkh", <<9>>), LargeValue, 4)}

OutputSeqs(spk) == UNION {[1..n -> OutputKinds(spk)] : n \in 0..MaxOutputs}

Histories == {[i \in 1..n |-> Txid(n + 1 - i)] : n \in 1..MaxHistory}

NoAnswer == [txid |-> Txid(1), output |-> <<>>]

\* the answers of the chain-query service and of the file system to one
\* fetch_utxo: every round trip answered, or the first failure
Envs(self) ==
    LET address == to_address(self.swap_script)
        spk == IF IsOk(address) THEN address.val.script_pubkey
               ELSE Spk("none", <<>>)
        good == [build_client |-> TRUE, history |-> Some(<<Txid(1)>>),
                 raw |-> "ok", file |-> TRUE, tx |-> NoAnswer]
    IN  {[good EXCEPT !.build_client = FALSE],
         [good EXCEPT !.history = None],
         [good EXCEPT !.history = Some(<<>>)],
         [good EXCEPT !.raw = "err"],
         [good EXCEPT !.raw = "undecodable"],
         [good EXCEPT !.file = FALSE]}
        \cup {[good EXCEPT !.history = Some(h),
                           !.tx = [txid |-> h[1], output |-> o]] :
                 h \in Histories, o \in OutputSeqs(spk)}

\* the answers to one broadcast
\* the outpoints and values a caller sets by hand
ManualOutPoints == {OutPoint(Txid(2), 1), OutPoint(Txid(3), 0)}
ManualValues == {SmallValue, LargeValue}

\* a transaction the caller did not get from this object's drain
KeptTransaction ==
    [version |-> 2, lock_time |-> U32(0), input |-> <<>>, output |-> <<>>]

BroadcastEnvs ==
    {[build_client |-> Ok("client"), service |-> Ok(Txid(3))],
     [build_client |-> Ok("client"),
      service |-> Err("Electrum", "bad-txns-inputs-missingorspent")],
     [build_client |-> build_client_error("connection refused"),
      service |-> Ok(Txid(3))]}

---------------------------------------------------------------------------
(* The reference interpreter of a segwit v0 witness script (BIP 141, BIP 143,
   BIP 65): the last element of the witness is the script, the elements
   before it are the initial stack, and the spend is valid when the script
   does not fail and leaves exactly one element, a true one. *)

\* hash160 of the byte strings of the inputs above
Hash160(bytes) == IF bytes = Preimage1 THEN Hashlock1 ELSE [i \in 1..20 |-> 0]

\* the truth of a stack element: some byte is not zero (a negative zero is false)
CastToBool(item) ==
    \/ item.sig
    \/ \E i \in 1..Len(item.bytes) :
        /\ item.bytes[i] # 0
        /\ ~(i = Len(item.bytes) /\ item.bytes[i] = 128)

BoolItem(b) == Item(IF b THEN <<1>> ELSE <<>>)

\* the length of an element: a DER signature with its sighash byte has 72 bytes
ItemSize(item) == IF item.sig THEN 72 ELSE Len(item.bytes)

HashItem(item) == Hash160(IF item.sig THEN <<>> ELSE item.bytes)

Executing(st) == \A i \in 1..Len(st.exec) : st.exec[i]
Fail(st) == [st EXCEPT !.ok = FALSE]
Pop(st, n) == [st EXCEPT !.stack = SubSeq(@, 1, Len(@) - n)]
Push(st, item) == [st EXCEPT !.stack = Append(@, item)]
Top(st, k) == st.stack[Len(st.stack) + 1 - k]

\* a little-endian number widened to 8 bytes
Widen(b) == b \o [i \in 1..(8 - Len(b)) |-> 0]

\* OP_CHECKLOCKTIMEVERIFY against the spending transaction (BIP 65)
CheckLockTime(n, ctx) ==
    LET threshold == Widen(U32(500000000))
        wanted == Widen(n.bytes)
        have == Widen(ctx.lock_time)
    IN  /\ ~n.sig
        /\ Len(n.bytes) <= 5
        /\ ~(Len(n.bytes) > 0 /\ n.bytes[Len(n.bytes)] >= 128)
        /\ (LeCompare(wanted, threshold, 8) = -1)
            = (LeCompare(have, threshold, 8) = -1)
        /\ LeCompare(wanted, have, 8) # 1
        /\ ctx.sequence # U32Max

\* OP_CHECKSIG: a signature by the key over the digest of the spend
CheckSig(sig, pubkey, ctx) ==
    /\ sig.sig
    /\ ~pubkey.sig
    /\ sig.signer = pubkey.bytes
    /\ sig.msg = ctx.sighash

\* one instruction of the script
ExecStep(st, ins, ctx) ==
    IF ~st.ok THEN st
    ELSE IF ins.t = "Err" THEN Fail(st)
    ELSE IF ins.t = "Op" /\ ins.op = OP_IF THEN
        IF ~Executing(st) THEN [st EXCEPT !.exec = Append(@, FALSE)]
        ELSE IF Len(st.stack) < 1 THEN Fail(st)
        ELSE [Pop(st, 1) EXCEPT !.exec = Append(@, CastToBool(Top(st, 1)))]
    ELSE IF ins.t = "Op" /\ ins.op = OP_ELSE THEN
        IF Len(st.exec) = 0 THEN Fail(st)
        ELSE [st EXCEPT !.exec[Len(st.exec)] = ~@]
    ELSE IF ins.t = "Op" /\ ins.op = OP_ENDIF THEN
        IF Len(st.exec) = 0 THEN Fail(st)
        ELSE [st EXCEPT !.exec = SubSeq(@, 1, Len(@) - 1)]
    ELSE IF ~Executing(st) THEN st
    ELSE IF ins.t = "PushBytes" THEN Push(st, Item(ins.bytes))
    ELSE IF ins.op \in OP_PUSHNUM_1..(OP_PUSHNUM_1 + 15) THEN
        Push(st, Item(<<ins.op - OP_PUSHNUM_1 + 1>>))
    ELSE IF ins.op = OP_SIZE THEN
        IF Len(st.stack) < 1 THEN Fail(st)
        ELSE Push(st, Item(build_scriptint(U32(ItemSize(Top(st, 1))))))
    ELSE IF ins.op = OP_EQUAL THEN
        IF Len(st.stack) < 2 THEN Fail(st)
        ELSE Push(Pop(st, 2), BoolItem(Top(st, 1) = Top(st, 2)))
    ELSE IF ins.op = OP_EQUALVERIFY THEN
        IF Len(st.stack) < 2 THEN Fail(st)
        ELSE IF Top(st, 1) = Top(st, 2) THEN Pop(st, 2)
        ELSE Fail(st)
    ELSE IF ins.op = OP_HASH160 THEN
        IF Len(st.stack) < 1 THEN Fail(st)
        ELSE Push(Pop(st, 1), Item(HashItem(Top(st, 1))))
    ELSE IF ins.op = OP_CLTV THEN
        IF Len(st.stack) < 1 THEN Fail(st)
        ELSE IF CheckLockTime(Top(st, 1), ctx) THEN st
        ELSE Fail(st)
    ELSE IF ins.op = OP_DROP THEN
        IF Len(st.stack) < 1 THEN Fail(st)
        ELSE Pop(st, 1)
    ELSE IF ins.op = OP_CHECKSIG THEN
        IF Len(st.stack) < 2 THEN Fail(st)
        ELSE Push(Pop(st, 2), BoolItem(CheckSig(Top(st, 2), Top(st, 1), ctx)))
    ELSE Fail(st)

RECURSIVE Execute(_, _, _, _)
Execute(instrs, k, st, ctx) ==
    IF k > Len(instrs) THEN st
    ELSE Execute(instrs, k + 1, ExecStep(st, instrs[k], ctx), ctx)

\* the verdict on a witness stack: the script is its last element
Spendable(witness, ctx) ==
    /\ Len(witness) >= 1
    /\ ~witness[Len(witness)].sig
    /\ LET st == Execute(Instructions(witness[Len(witness)].bytes), 1,
                         [stack |-> SubSeq(witness, 1, Len(witness) - 1),
                          exec |-> <<>>, ok |-> TRUE], ctx)
       IN  /\ st.ok
           /\ Len(st.exec) = 0
           /\ Len(st.stack) = 1
           /\ CastToBool(st.stack[1])

\* the spend of input 1 of a transaction, as a verifier that accepts the
\* digest the signature was made over sees it
SpendOf(signed_tx) ==
    [sighash |-> signed_tx.input[1].script_witness[2].msg,
     lock_time |-> signed_tx.lock_time,
     sequence |-> signed_tx.input[1].sequence]

---------------------------------------------------------------------------
(* The calls a caller makes.  A panic ends the run.  The caller first makes
   its script object (new, to_script, the decoders) and then a swap
   transaction from it, on which it calls manual_utxo_update, drain and
   broadcast in any order and any number of times.  last holds the call just
   made, its inputs and what it returned; Resume is the caller letting go of
   that before its next call on the transaction. *)

Alive == ~IsPanic(last.result)

Init ==
    /\ build \in {"debug", "release"}
    /\ script = None
    /\ tx = None
    /\ last = [op |-> "start", result |-> Ok("")]

CodecCall ==
    /\ Alive
    /\ ~tx.some
    /\ UNCHANGED <<build, tx>>

New(Fields) ==
    /\ CodecCall
    /\ ~script.some
    /\ \E f \in Fields :
        /\ script' = Some(f)
        /\ last' = [op |-> "new", result |-> Ok(f)]

ToScript ==
    /\ CodecCall
    /\ script.some
    /\ last' = [op |-> "to_script", self |-> script.val,
                result |-> to_script(script.val)]
    /\ UNCHANGED script

\* the field set and the script of the to_script just before, if there was one
Encoded ==
    IF last.op = "to_script" /\ IsOk(last.result)
    THEN Some([self |-> last.self, script |-> last.result.val])
    ELSE None

FromStrCall(op, r, str, blinding_str) ==
    /\ script' = IF IsOk(r) THEN Some(r.val) ELSE script
    /\ last' = [op |-> op, redeem_script_str |-> str,
                blinding_str |-> blinding_str, encoded |-> Encoded, result |-> r]

SubmarineFromStr ==
    /\ CodecCall
    /\ \E str \in RedeemScriptStrs, blinding_str \in BlindingStrs :
        FromStrCall("submarine_from_str",
                    submarine_from_str(Network, ElectrumUrl, str, blinding_str),
                    str, blinding_str)

ReverseFromStr ==
    /\ CodecCall
    /\ \E str \in RedeemScriptStrs, blinding_str \in BlindingStrs :
        FromStrCall("reverse_from_str",
                    reverse_from_str(Network, ElectrumUrl, str, blinding_str),
                    str, blinding_str)

NewTxCall(op, r, output_address, absolute_fees) ==
    /\ tx' = IF IsOk(r) THEN Some(r.val) ELSE tx
    /\ last' = [op |-> op, output_address |-> output_address,
                absolute_fees |-> absolute_fees, result |-> r]
    /\ UNCHANGED <<build, script>>

NewClaim ==
    /\ Alive /\ script.some /\ ~tx.some
    /\ \E output_address \in AddressStrs, absolute_fees \in Fees :
        NewTxCall("new_claim",
                  new_claim(script.val, output_address, absolute_fees),
                  output_address, absolute_fees)

NewRefund ==
    /\ Alive /\ script.some /\ ~tx.some
    /\ \E output_address \in AddressStrs, absolute_fees \in Fees :
        NewTxCall("new_refund",
                  new_refund(script.val, output_address, absolute_fees),
                  output_address, absolute_fees)

\* a call on the swap transaction
TxCall ==
    /\ Alive
    /\ tx.some
    /\ UNCHANGED <<build, script>>

\* the caller holds nothing of an earlier call on the transaction
AtRest == last.op \in {"new_claim", "new_refund", "resume"}

Resume ==
    /\ TxCall
    /\ ~AtRest
    /\ last' = [op |-> "resume", result |-> Ok("")]
    /\ UNCHANGED tx

ManualUtxoUpdate ==
    /\ TxCall
    /\ AtRest
    /\ \E utxo \in ManualOutPoints, value \in ManualValues :
        /\ tx' = Some(manual_utxo_update(tx.val, utxo, value))
        /\ last' = [op |-> "manual_utxo_update", before |-> tx.val,
                    utxo |-> utxo, value |-> value,
                    result |-> Ok(manual_utxo_update(tx.val, utxo, value))]

\* rng and lib are the draw of the random source and the answer of the
\* blinding library; a run in which they are not consumed takes the first
DrainDone(keys, preimage, env, rng, lib, d) ==
    /\ tx' = Some(d.self)
    /\ last' = [op |-> "drain", before |-> tx.val, keys |-> keys,
                preimage |-> preimage, env |-> env, rng |-> rng,
                lib |-> lib, query |-> d.query,
                recorded |-> d.recorded, signing |-> d.signing,
                result |-> d.result]

\* the answers of the library other than "ok" that change what drain returns
Refusals(first, no_asset, no_value) ==
    (IF no_asset.result # first.result THEN {"Asset::blind Err"} ELSE {})
    \cup (IF no_value.result # first.result THEN {"Value::blind Err"} ELSE {})

DrainDraws(keys, preimage, env, first, no_asset, no_value) ==
    \/ \E rng \in (IF IsOk(first.result) THEN 1..MaxRng ELSE {1}) :
        DrainDone(keys, preimage, env, rng, "ok",
                  IF rng = 1 THEN first
                  ELSE drain(tx.val, keys, preimage, env, rng, "ok"))
    \/ \E lib \in Refusals(first, no_asset, no_value) :
        DrainDone(keys, preimage, env, 1, lib,
                  IF lib = "Asset::blind Err" THEN no_asset ELSE no_value)

Drain ==
    /\ TxCall
    /\ AtRest
    /\ \E keys \in Keys, preimage \in Preimages, env \in Envs(tx.val) :
        DrainDraws(keys, preimage, env,
                   drain(tx.val, keys, preimage, env, 1, "ok"),
                   drain(tx.val, keys, preimage, env, 1, "Asset::blind Err"),
                   drain(tx.val, keys, preimage, env, 1, "Value::blind Err"))

\* the transactions a caller has to broadcast: the one drain just returned,
\* or one it kept from elsewhere
SignedTxs ==
    IF last.op = "drain" /\ IsOk(last.result) THEN {last.result.val}
    ELSE IF AtRest THEN {KeptTransaction}
    ELSE {}

Broadcast ==
    /\ TxCall
    /\ \E signed_tx \in SignedTxs, env \in BroadcastEnvs :
        LET b == broadcast(tx.val, signed_tx, env)
        IN  /\ tx' = Some(b.self)
            /\ last' = [op |-> "broadcast", before |-> tx.val,
                        signed_tx |-> signed_tx, env |-> env, sent |-> b.sent,
                        result |-> b.result]

Next ==
    \/ New(NarrowFields)
    \/ ToScript
    \/ SubmarineFromStr
    \/ ReverseFromStr
    \/ NewClaim
    \/ NewRefund
    \/ ManualUtxoUpdate
    \/ Drain
    \/ Broadcast
    \/ Resume

Spec == Init /\ [][Next]_vars

\* the codec alone, over every field set
CodecNext ==
    \/ New(WideFields)
    \/ ToScript
    \/ SubmarineFromStr
    \/ ReverseFromStr

CodecSpec == Init /\ [][CodecNext]_vars

---------------------------------------------------------------------------
(* The decoder call of a round trip: the call decodes, in the direction the
   script was encoded for, the string of the script to_script just returned
   for a valid field set, with a well-formed blinding key. *)

DecoderOf(swap_type) ==
    IF swap_type = "Submarine" THEN "submarine_from_str" ELSE "reverse_from_str"

IsDecode == last.op \in {"submarine_from_str", "reverse_from_str"}

DirectionOf(op) == IF op = "submarine_from_str" THEN "Submarine" ELSE "ReverseSubmarine"

DistinctKeys(f) == f.reciever_pubkey # f.sender_pubkey

IsRoundTrip ==
    /\ IsDecode
    /\ last.encoded.some
    /\ ValidFields(last.encoded.val.self)
    /\ DistinctKeys(last.encoded.val.self)
    /\ last.op = DecoderOf(last.encoded.val.self.swap_type)
    /\ last.redeem_script_str = HexEncode(last.encoded.val.script)
    /\ IsOk(from_seckey_str(last.blinding_str))

SameFields(a, b) ==
    /\ a.hashlock = b.hashlock
    /\ a.reciever_pubkey = b.reciever_pubkey
    /\ a.sender_pubkey = b.sender_pubkey
    /\ a.timelock = b.timelock

\* C1: round trip. Decoding the script to_script produced for a valid field set
\* (any timelock of the u32 range), with the decoder of its direction, succeeds
\* and returns the hashlock, receiver key, sender key and timelock encoded.
C1_RoundTrip ==
    IsRoundTrip =>
        /\ IsOk(last.result)
        /\ SameFields(last.result.val, last.encoded.val.self)

\* C1, the case: a round trip that gives the fields back (the timelock of the
\* repository's test vector)
C1_RoundTripReturnsFields ==
    /\ IsRoundTrip
    /\ IsOk(last.result)
    /\ SameFields(last.result.val, last.encoded.val.self)

\* the fields the scan of the last decode call extracted
ScanOfLast ==
    Scan(DirectionOf(last.op), Instructions(HexDecode(last.redeem_script_str)),
         1, ScanInit)

FieldUnset(st) ==
    \/ ~st.hashlock.some
    \/ ~st.reciever_pubkey.some
    \/ ~st.timelock.some
    \/ ~st.sender_pubkey.some

IsInputError(r) == IsErr(r) /\ r.kind = "Input"

\* C2: in both directions, when the scan of the whole instruction stream ends
\* with any one of hashlock, receiver key, timelock, sender key unset, the
\* decoder returns an Input error and no script object.
C2_UnsetFieldIsInputError ==
    (/\ IsDecode
     /\ HexValid(last.redeem_script_str)
     /\ ~ScanOfLast.panic
     /\ FieldUnset(ScanOfLast))
        => IsInputError(last.result)

\* C2, the case: a scan that ends without the receiver key and with the other
\* three fields
C2_ReceiverKeyUnset ==
    /\ IsDecode
    /\ HexValid(last.redeem_script_str)
    /\ ~ScanOfLast.panic
    /\ ~ScanOfLast.reciever_pubkey.some
    /\ ScanOfLast.hashlock.some
    /\ ScanOfLast.timelock.some
    /\ ScanOfLast.sender_pubkey.some

---------------------------------------------------------------------------
(* drain: the call, the transaction object it leaves in tx, and its result *)

IsDrain == last.op = "drain"

IsTransactionError(r) == IsErr(r) /\ r.kind = "Transaction"

IsNetworkError(r) == IsErr(r) /\ r.kind = "Network"

FeeOf(self) == U64FromU32(self.absolute_fees)

\* the fee is greater than the utxo value the transaction object holds
FeeExceedsValue(self) ==
    self.utxo_value.some /\ U64Less(self.utxo_value.val, FeeOf(self))

\* C3: underflow guard. When the fee is greater than the located utxo value,
\* the drain of a Claim fails with a Transaction error: the subtraction neither
\* wraps nor panics and no transaction is returned.
C3_UnderflowIsTransactionError ==
    (IsDrain /\ last.before.kind = "Claim" /\ last.signing
             /\ FeeExceedsValue(tx.val))
        => IsTransactionError(last.result)

\* C3, the case: without overflow checks the drain returns a transaction whose
\* payment is the difference modulo 2^64
C3_WrappedPayment ==
    /\ IsDrain /\ last.before.kind = "Claim" /\ last.signing
    /\ FeeExceedsValue(tx.val)
    /\ IsOk(last.result)
    /\ last.result.val.output[1].value.value
         = U64WrappingSub(tx.val.utxo_value.val, FeeOf(tx.val))

\* C4: balance. For every claim transaction drain returns with fee <= utxo
\* value, the value blinded into the payment output plus the value of the fee
\* output is the located utxo value exactly (no carry out of 64 bits), and the
\* fee output carries the configured fee as an explicit value.
C4_Balance ==
    (IsDrain /\ IsOk(last.result) /\ ~FeeExceedsValue(tx.val)) =>
        LET payment == last.result.val.output[1].value
            fee == last.result.val.output[2].value
        IN  /\ Len(last.result.val.output) = 2
            /\ U64WrappingAdd(payment.value, fee.value) = tx.val.utxo_value.val
            /\ ~U64Less(tx.val.utxo_value.val, payment.value)
            /\ fee.explicit
            /\ fee.value = FeeOf(tx.val)

\* C4, the case: a claim transaction returned for a utxo value above the fee
C4_ClaimReturned ==
    /\ IsDrain /\ IsOk(last.result) /\ ~FeeExceedsValue(tx.val)
    /\ last.recorded
    /\ U64Less(FeeOf(tx.val), tx.val.utxo_value.val)

\* C5: unsupported refund. For a Refund-kind transaction, whatever the locate
\* step meets (funding output found, no matching output, empty history, failed
\* round trip), drain yields a Transaction error and never a transaction.
C5_RefundIsTransactionError ==
    (IsDrain /\ last.before.kind = "Refund") => IsTransactionError(last.result)

\* C5, the case: the drain of a Refund whose locate step found the funding output
C5_RefundUnsupported ==
    /\ IsDrain /\ last.before.kind = "Refund" /\ last.recorded
    /\ last.result = Err("Transaction",
                         "Refund transaction signing not supported yet")

\* the answers with which the locate step ends without a utxo: the address has
\* no history entry, or every round trip is answered and no output of the
\* fetched transaction is locked by the funding script
NothingToLocate(self, env) ==
    /\ env.build_client
    /\ env.history.some
    /\ \/ Len(env.history.val) = 0
       \/ /\ env.raw = "ok"
          /\ env.file
          /\ IsOk(to_address(self.swap_script))
          /\ FirstMatch(env.tx.output,
                        to_address(self.swap_script).val.script_pubkey, 1) = 0

\* C6: not yet funded. When the locate step of drain ends with no utxo recorded
\* (no history entry, or no output matching the funding script), the locator
\* raises no error and drain returns a Transaction error before any build or
\* sign step.
C6_NotYetFundedIsTransactionError ==
    (IsDrain /\ ~has_utxo(last.before) /\ NothingToLocate(last.before, last.env))
        => /\ IsTransactionError(last.result)
           /\ ~last.signing

\* C6, the case: a fetched transaction without an output for the funding script
C6_NoMatchingOutput ==
    /\ IsDrain /\ ~has_utxo(last.before) /\ NothingToLocate(last.before, last.env)
    /\ Len(last.env.history.val) > 0
    /\ last.result = Err("Transaction", "No utxos available yet")

---------------------------------------------------------------------------
(* The claim witness *)

\* a claim transaction drain returned for the correct 32-byte preimage and
\* signed with the receiver's key
IsRightfulClaim ==
    /\ IsDrain /\ IsOk(last.result)
    /\ Len(last.preimage.bytes.val) = 32
    /\ Hash160(last.preimage.bytes.val) = HexDecode(last.before.swap_script.hashlock)
    /\ last.keys.public_key = HexDecode(last.before.swap_script.reciever_pubkey)

WitnessOf(signed_tx) == signed_tx.input[1].script_witness

\* C7: witness validity. In both directions the witness stack sign_claim_tx
\* builds (empty element, signature, preimage, redeem script), evaluated by the
\* reference segwit v0 interpreter with the correct preimage and a valid
\* receiver signature, is spendable: the script succeeds and leaves exactly one
\* true element.
C7_WitnessSpendable ==
    IsRightfulClaim =>
        Spendable(WitnessOf(last.result.val), SpendOf(last.result.val))

\* C7, the case: the stack is refused with its leading empty element and
\* accepted without it
C7_EmptyElementLeftOver ==
    /\ IsRightfulClaim
    /\ ~Spendable(WitnessOf(last.result.val), SpendOf(last.result.val))
    /\ Spendable(Tail(WitnessOf(last.result.val)), SpendOf(last.result.val))

---------------------------------------------------------------------------
(* Error handling at the boundaries *)

\* no hex, or an instruction that fails to parse
MalformedScript(str) ==
    \/ ~HexValid(str)
    \/ \E i \in 1..Len(Instructions(HexDecode(str))) :
           Instructions(HexDecode(str))[i].t = "Err"

IsNewTx == last.op \in {"new_claim", "new_refund"}

\* C8: parse failures are returned as values. For submarine_from_str,
\* reverse_from_str, new_claim and new_refund, a malformed redeem script
\* (invalid hex, or an instruction that fails to parse), a malformed blinding
\* key or a malformed destination address yields an Input error at that call:
\* no panic and no script or transaction object.
C8_ParseFailureIsInputError ==
    /\ (IsDecode /\ (\/ MalformedScript(last.redeem_script_str)
                     \/ ~IsOk(from_seckey_str(last.blinding_str))))
          => IsInputError(last.result)
    /\ (IsNewTx /\ ~IsOk(AddressFromStr(last.output_address)))
          => (IsInputError(last.result) /\ ~tx.some)

\* C8, the case: a redeem-script string that is no hex
C8_InvalidHex ==
    /\ IsDecode
    /\ ~HexValid(last.redeem_script_str)
    /\ IsPanic(last.result)

\* a failure of client construction, of the history lookup or of the
\* raw-transaction fetch
LocateRoundTripFails(env) ==
    \/ ~env.build_client
    \/ ~env.history.some
    \/ env.raw = "err"

\* C9: in the locate step of drain, a failure of client construction, of the
\* history lookup or of the raw-transaction fetch reaches the caller of drain
\* as a Network error, with the stored utxo, value and secrets unchanged.
C9_LocateFailureIsNetworkError ==
    (IsDrain /\ LocateRoundTripFails(last.env))
        => /\ IsNetworkError(last.result)
           /\ tx.val = last.before

\* C9, the case: the raw-transaction fetch fails after a history was returned
C9_RawFetchFails ==
    /\ IsDrain
    /\ last.env.build_client /\ last.env.history.some /\ last.env.raw = "err"
    /\ IsPanic(last.result)
    /\ tx.val = last.before

IsBroadcast == last.op = "broadcast"

\* what broadcast returns for what the service answered
BroadcastAnswer(env) ==
    IF IsOk(env.service) THEN Ok(TxidToString(env.service.val))
    ELSE Err("Network", env.service.msg)

\* C10 as stated: every broadcast makes exactly one raw-broadcast round trip
\* with the serialized transaction; it returns the id the service returned, or
\* a Network error when the service rejects the transaction or the client
\* cannot be built; the transaction object is unchanged.
C10_ExactlyOneRoundTrip ==
    IsBroadcast =>
        /\ last.sent = <<serialize(last.signed_tx)>>
        /\ IF IsOk(last.env.build_client) /\ IsOk(last.env.service)
           THEN last.result = Ok(TxidToString(last.env.service.val))
           ELSE IsNetworkError(last.result)
        /\ tx.val = last.before

\* C10: broadcast makes one raw-broadcast round trip with the serialized
\* transaction when the client is built, and none when it cannot be built. With
\* the client built it returns the id the service returned, or a Network error
\* with the service's message unchanged; with no client it returns the Network
\* error of the client construction. The transaction object is unchanged.
C10_RoundTripIfClientBuilt ==
    IsBroadcast =>
        /\ IF IsOk(last.env.build_client)
           THEN /\ last.sent = <<serialize(last.signed_tx)>>
                /\ last.result = BroadcastAnswer(last.env)
           ELSE /\ last.sent = <<>>
                /\ last.result = last.env.build_client
                /\ IsNetworkError(last.result)
        /\ tx.val = last.before

\* C10, the case: a broadcast whose client cannot be built
C10_ClientNotBuilt ==
    /\ IsBroadcast
    /\ ~IsOk(last.env.build_client)
    /\ last.sent = <<>>

---------------------------------------------------------------------------
(* The vector of the repository's test *)

\* the decode of the test's redeem script as ReverseSubmarine, with the
\* test's blinding key
IsVectorDecode ==
    /\ last.op = "reverse_from_str"
    /\ last.redeem_script_str = HexEncode(VectorScript)
    /\ IsOk(from_seckey_str(last.blinding_str))

\* C11: end-to-end vector. Decoding the test's redeem script as
\* ReverseSubmarine succeeds with timelock 1202545 (the little-endian value of
\* the 3-byte push 71 59 12), the receiver key 02ccba..e53c pushed after
\* OP_EQUALVERIFY, the hashlock 2bdd03..1535 and the sender key 03fced..ff40,
\* and to_script of those fields gives the bytes of the original script.
C11_VectorDecodesAndReencodes ==
    IsVectorDecode =>
        /\ IsOk(last.result)
        /\ last.result.val.swap_type = "ReverseSubmarine"
        /\ last.result.val.timelock = U32(1202545)
        /\ last.result.val.timelock = <<113, 89, 18, 0>>
        /\ last.result.val.reciever_pubkey = HexEncode(PubKey1)
        /\ last.result.val.hashlock = HexEncode(Hashlock1)
        /\ last.result.val.sender_pubkey = HexEncode(PubKey2)
        /\ to_script(last.result.val) = Ok(VectorScript)

\* C11, the case: the test's script decoded
C11_VectorDecoded ==
    /\ IsVectorDecode
    /\ IsOk(last.result)
    /\ script = Some(last.result.val)

---------------------------------------------------------------------------
(* The preconditions of signing *)

\* the last drain, given this preimage instead, returns a signed transaction:
\* nothing but the preimage stands in the way of the claim
WouldSignWith(preimage) ==
    IsOk(drain(last.before, last.keys, preimage, last.env, last.rng,
               last.lib).result)

\* C12: a preimage without bytes. When the preimage holds no bytes, the drain
\* of a Claim fails: it returns an error and no signed transaction, and no
\* default or empty value stands in the preimage position of a witness.
C12_NoPreimageIsError ==
    (IsDrain /\ last.before.kind = "Claim" /\ ~last.preimage.bytes.some
             /\ WouldSignWith([bytes |-> Some(Preimage1)]))
        => IsErr(last.result)

\* C12, the case: signing reaches the preimage and finds no bytes
C12_PreimageUnwrapped ==
    /\ IsDrain /\ last.before.kind = "Claim" /\ ~last.preimage.bytes.some
    /\ last.signing
    /\ last.result = Panic("preimage.bytes unwrap")

\* C13: a signed transaction only from a fully located state. drain returns a
\* signed transaction only if the kind is Claim and the outpoint, the utxo
\* value and the unblinded secrets are all present, and no build or sign step
\* is started while the secrets are absent.
C13_SignedOnlyIfLocated ==
    /\ (IsDrain /\ IsOk(last.result))
          => /\ tx.val.kind = "Claim"
             /\ tx.val.utxo.some
             /\ tx.val.utxo_value.some
             /\ tx.val.txout_secrets.some
    /\ (IsDrain /\ last.signing) => tx.val.txout_secrets.some

\* C13, the case: the utxo set by hand, a locate that matches no output, and
\* the signing of a Claim started without the secrets
C13_SigningWithoutSecrets ==
    /\ IsDrain /\ last.before.kind = "Claim"
    /\ has_utxo(last.before)
    /\ ~last.recorded
    /\ last.signing
    /\ ~tx.val.txout_secrets.some
    /\ last.result = Panic("txout_secrets unwrap")

---------------------------------------------------------------------------
(* The signature hash *)

\* a claim transaction returned by a drain whose locate step recorded the utxo
IsLocatedClaim == IsDrain /\ IsOk(last.result) /\ last.recorded

\* the output the claim spends, in the transaction the locate step fetched
SpentOutput == last.env.tx.output[tx.val.utxo.val.vout + 1]

\* what the signature of input 0 was made over
SignedDigest == WitnessOf(last.result.val)[2].msg

\* C14: the signature hash of input 0 commits to the value commitment of the
\* utxo being spent (the blinded value of the located funding output), with the
\* redeem script as script code and sighash type ALL; in that position it
\* commits to the value of no output of the claim transaction.
C14_SighashCommitsToSpentValue ==
    IsLocatedClaim =>
        /\ SignedDigest.value = SpentOutput.value
        /\ \A j \in 1..Len(last.result.val.output) :
               SignedDigest.value # last.result.val.output[j].value
        /\ SignedDigest.script_code = to_script(tx.val.swap_script).val
        /\ SignedDigest.sighash_type = "All"
        /\ SignedDigest.previous_output = tx.val.utxo.val

\* C14, the case: the digest holds the value commitment of the new payment
\* output where the commitment of the spent output belongs
C14_PaymentValueSigned ==
    /\ IsLocatedClaim
    /\ SignedDigest.value = last.result.val.output[1].value
    /\ SignedDigest.value # SpentOutput.value
    /\ SignedDigest.script_code = to_script(tx.val.swap_script).val
    /\ SignedDigest.sighash_type = "All"

---------------------------------------------------------------------------
(* The locate step *)

\* the locking script of the address derived from the swap script
FundingScript(self) == to_address(self.swap_script).val.script_pubkey

\* output i (from 1) of the fetched transaction is locked by the funding script
IsFunding(i) ==
    last.env.tx.output[i].script_pubkey = FundingScript(last.before)

\* the locate step of the last drain returned (no unwrap in it failed)
LocateReturned == IsDrain /\ ~fetch_utxo(last.before, last.env).panic.some

\* C15: locate records at most one utxo, the first match. After a locate in
\* which some output of the fetched transaction is locked by the script of the
\* derived address, the stored outpoint is that transaction's id with the
\* index (from 0) of the first such output, the stored value and secrets are
\* those unblinded from that output, and the three replace what was stored
\* before; later matching outputs are ignored.
C15_FirstMatchRecorded ==
    (LocateReturned /\ \E i \in 1..Len(last.env.tx.output) : IsFunding(i)) =>
        LET first == CHOOSE i \in 1..Len(last.env.tx.output) :
                        IsFunding(i) /\ \A j \in 1..(i - 1) : ~IsFunding(j)
            unblinded == last.env.tx.output[first].secrets.val
        IN  /\ last.recorded
            /\ tx.val.utxo = Some(OutPoint(last.env.tx.txid, first - 1))
            /\ tx.val.utxo_value = Some(unblinded.value)
            /\ tx.val.txout_secrets = Some(unblinded)

\* C15, the case: a utxo and its secrets were stored by an earlier drain, two
\* outputs are locked by the funding script, they differ, and the first is
\* recorded in place of what was stored
C15_SecondMatchIgnored ==
    /\ LocateReturned
    /\ has_utxo(last.before)
    /\ Len(last.env.tx.output) = 2
    /\ IsFunding(1) /\ IsFunding(2)
    /\ last.env.tx.output[1] # last.env.tx.output[2]
    /\ tx.val.utxo = Some(OutPoint(last.env.tx.txid, 0))
    /\ tx.val.utxo # last.before.utxo
    /\ tx.val.utxo_value # last.before.utxo_value
    /\ last.before.txout_secrets.some
    /\ tx.val.txout_secrets # last.before.txout_secrets

\* C16: in both directions the locking script whose history the locate step
\* asks for is the locking script it compares the outputs of the fetched
\* transaction against (the script_pubkey of to_address), so that an output
\* paid to the derived address is found.
C16_QueriedScriptIsFundingScript ==
    (IsDrain /\ last.query.some) =>
        last.query.val = FundingScript(last.before)

\* C16, the case: for a Submarine swap the history of the native p2wsh script
\* is asked while the outputs are compared against the p2sh-wrapped script
C16_SubmarineAsksOtherScript ==
    /\ IsDrain /\ last.query.some
    /\ last.before.swap_script.swap_type = "Submarine"
    /\ last.query.val.kind = "p2wsh"
    /\ FundingScript(last.before).kind = "p2sh-p2wsh"
    /\ last.query.val.of = FundingScript(last.before).of

====
